---- MODULE Spec2Model ----
(***************************************************************************)
(* Model of the csync journal store (src/src/csync_journal.c) and of the   *)
(* restart loop of the command line client (src/src/cmd/cmd.cpp).          *)
(*                                                                         *)
(* The database (sqlite3), the file system and the sync engine are the     *)
(* environment: every answer they can give is a nondeterministic choice.   *)
(* Memory allocation (c_strlist_new, c_strlist_add) is taken to succeed.   *)
(***************************************************************************)
EXTENDS Integers, Sequences, FiniteSets, TLC

\* ------------------------------------------------------------------ bounds
MaxRows == 2          \* rows a statement yields in one execution, at most
MaxRowid == 1         \* last-insert-rowid values are 0..MaxRowid
MaxPasses == 3        \* sync passes of one run of the client, at most

\* ------------------------------------------------------- program constants
MaxBusyCount == 120   \* busy ceiling of both retry loops
MaxRetryCount == 10   \* SQLITE_SCHEMA retry ceiling

VARIABLES
  \* ---- csync_journal_query / csync_journal_insert: locals and position
  jpc,            \* "idle" | "prepare" | "step" | "done"
  op,             \* "none" | "query" | "insert" | "probe" (query of is_empty)
  statement,      \* the SQL statement of the running call
  busy_count, retry_count, err, rc, column_count,
  result,         \* c_strlist_t *result of query
  ret,            \* return value of insert
  \* ---- CSYNC context and files
  jfile,          \* content of the journal file
  tmpfile,        \* content of the "<journal>.ctmp" sidecar
  journal,        \* ctx->journal: which file the live handle is open on
  journal_exists, \* ctx->journal_exists
  lastRowid,      \* sqlite3_last_insert_rowid of the live connection
  loadpc,         \* "idle" | "probing" | "returned"
  loadRet,        \* return value of csync_journal_load
  \* ---- observers (history of the running call)
  prepCalls,      \* sqlite3_prepare calls of the call's first prepare phase
  prepSleeps,     \* usleep calls of the call's first prepare phase
  stepRetries,    \* step calls made after a BUSY answer, this phase
  attempts,       \* sqlite3_finalize calls of the running call
  rowsSeen,       \* rows produced in this attempt
  stepped,        \* a sqlite3_step call was made in the running call
  touched,        \* a sqlite3_* or usleep call was made in the running call
  hardError,      \* this attempt saw a prepare or step error that is not BUSY
  endedAt,        \* where the call returned: "none" | "empty" | "prepare" | "finalize"
  loadObs,        \* what csync_journal_load met and did (see LoadStart)
  twin,           \* where csync_journal_query stands after the same answers
  phaseStart,     \* no call was made yet in the prepare or step phase entered
  \* ---- main() of the command line client
  pc,             \* position in main
  args,           \* app.arguments()
  options,        \* CmdOptions
  cred,           \* the user and password HttpCredentialsText was made with
  ctx,            \* _csync_ctx: the context main holds (0: none yet)
  nextCtx,        \* contexts csync_create has handed out so far
  live,           \* contexts created and not yet destroyed
  sockDepth,      \* ne_sock_init calls not yet matched by ne_sock_exit
  props,          \* module properties of the context main holds
  excludeList,    \* exclude list file given to csync_add_exclude_list
  \* ---- SyncEngine and the event loop of QCoreApplication
  engine,         \* "none" | "constructed" | "running" | "finished"
  engineCtx,      \* the context the engine was constructed with
  connected,      \* finished() of the engine is connected to app.quit()
  queue,          \* method invocations posted to the event loop
  inExec,         \* main is inside app.exec()
  quit,           \* quit() reached the running event loop
  another,        \* engine.isAnotherSyncNeeded()
  outcome,        \* how the pass of the engine ended: "none" | "ok" | "failed"
  \* ---- observers of main
  trace,          \* what main and the engine did in this pass, in order
  passes,         \* csync_create calls that returned a context
  starts,         \* startSync runs
  repeats,        \* passes after which the engine reported another sync needed
  createdIds,     \* the context each csync_create call returned, in order
  engineIds,      \* the context each engine started with, in order
  resolverCalls   \* passes in which the proxy resolver was invoked

qvars == <<jpc, op, statement, busy_count, retry_count, err, rc, column_count,
           result, ret>>
cvars == <<jfile, tmpfile, journal, journal_exists, lastRowid, loadpc, loadRet>>
hvars == <<prepCalls, prepSleeps, stepRetries, attempts, rowsSeen, stepped,
           touched, hardError, endedAt, loadObs, twin, phaseStart>>
jvars == <<qvars, cvars, hvars>>
mvars == <<pc, args, options, cred, ctx, nextCtx, live, sockDepth, props,
           excludeList>>
evars == <<engine, engineCtx, connected, queue, inExec, quit, another, outcome>>
ovars == <<trace, passes, starts, repeats, createdIds, engineIds, resolverCalls>>
cmdvars == <<mvars, evars, ovars>>
vars == <<jvars, cmdvars>>

\* ------------------------------------------------------------ c_strlist_t
NullList == [isNull |-> TRUE, size |-> 0, vals |-> <<>>]
c_strlist_new(n) == [isNull |-> FALSE, size |-> n, vals |-> <<>>]
c_strlist_add(l, v) == [l EXCEPT !.vals = Append(@, v)]
Count(l) == Len(l.vals)
\* the list query returns on failure: c_strlist_new(1), nothing added
Sentinel == c_strlist_new(1)

\* --------------------------------------------------- sqlite3 (environment)
QueryStatements == {"SELECT"}
InsertStatements == {"", "INSERT"}
ProbeStatement == "SELECT COUNT(key) FROM metadata LIMIT 1 OFFSET 0;"
HasTable(f) == f \in {"sqlite_table0", "sqlite_tableN"}

\* sqlite3_column_count(stmt)
ColumnCount(s) == IF s = "SELECT" THEN 2 ELSE 1

\* sqlite3_column_text(stmt, i) of the r-th row of this execution; the probe's
\* only row holds the number of metadata rows; after a MISUSE answer there is
\* no row, the text is whatever the call hands back (row 0)
ColumnText(r, i) ==
  IF op = "probe" THEN <<(IF tmpfile = "sqlite_tableN" THEN 1 ELSE 0), i>>
  ELSE <<r, i>>

\* answers of sqlite3_prepare: a statement over a table that is not there
\* does not compile
PrepareAnswers ==
  IF op = "probe" /\ ~HasTable(tmpfile) THEN {"BUSY", "ERROR"}
  ELSE {"OK", "BUSY", "ERROR"}

\* answers of sqlite3_step
StepAnswers ==
  IF op = "probe"
  THEN (IF rowsSeen = 0 THEN {"ROW"} ELSE {"DONE"}) \cup {"BUSY", "ERROR"}
  ELSE {"DONE", "BUSY", "ERROR"}
       \cup (IF rowsSeen < MaxRows THEN {"ROW", "MISUSE"} ELSE {})

\* answers of sqlite3_finalize
FinalizeAnswers == {"OK", "SCHEMA", "ERROR"}

\* content of a database file after a statement ran to SQLITE_DONE on it
Written(f) == IF f = "sqlite_table0" \/ f = "sqlite_tableN"
              THEN "sqlite_tableN" ELSE "sqlite_table0"

\* ------------------------------------ the retry conditions of query/insert
\* the loop test with <= in place of <
PrepareAgain_OffByOne(e, bc) == e = "BUSY" /\ bc <= MaxBusyCount

\* while (err == SQLITE_BUSY && busy_count++ < 120)
PrepareAgain(e, bc) == e = "BUSY" /\ bc < MaxBusyCount

\* if (busy_count++ > 120) break;
StepGiveUp(bc) == bc > MaxBusyCount

\* if (err == SQLITE_DONE || err == SQLITE_ERROR) break;
StepBreaks(e) == e = "DONE" \/ e = "ERROR"

\* if (err != SQLITE_DONE && rc != SQLITE_SCHEMA)
StepFailed(e, r) == e # "DONE" /\ r # "SCHEMA"

\* the outer loop test with <= in place of <
RetryAgain_OffByOne(r, n) == r = "SCHEMA" /\ n <= MaxRetryCount

\* while (rc == SQLITE_SCHEMA && retry_count < 10), and the same test inside
RetryAgain(r, n) == r = "SCHEMA" /\ n < MaxRetryCount

\* the row loop of query up to its break tests: a BUSY answer below the
\* ceiling sleeps and continues; any other answer stays unless it is DONE or
\* ERROR
QueryStepStays(e, bc) == IF e = "BUSY" THEN ~StepGiveUp(bc) ELSE ~StepBreaks(e)

\* the row loop of insert left on every BUSY answer
InsertStepStays_BusyLeaves(e, bc) == e # "BUSY" /\ ~StepBreaks(e)

\* the row loop of insert: a BUSY answer below the ceiling sleeps and, there
\* being no continue, falls through to the tests of MISUSE and of DONE/ERROR
InsertStepStays(e, bc) == ~(e = "BUSY" /\ StepGiveUp(bc)) /\ ~StepBreaks(e)

\* position, busy_count and retry_count of csync_journal_query at its entry
QueryEntry == [pc |-> "prepare", busy |-> 0, retry |-> 0]

\* csync_journal_query after one more prepare call answered resp, or one more
\* step call answered resp followed, when the row loop is left, by finalize
\* answering fin
QueryControl(t, resp, fin) ==
  IF t.pc = "prepare"
  THEN IF PrepareAgain(resp, t.busy) THEN [t EXCEPT !.busy = @ + 1]
       ELSE IF resp # "OK"
       THEN [t EXCEPT !.pc = "done",
                      !.busy = IF resp = "BUSY" THEN @ + 1 ELSE @]
       ELSE [t EXCEPT !.pc = "step", !.busy = 0]
  ELSE IF t.pc = "step"
  THEN IF QueryStepStays(resp, t.busy)
       THEN [t EXCEPT !.busy = IF resp = "BUSY" THEN @ + 1 ELSE @]
       ELSE LET n == IF fin = "SCHEMA" THEN t.retry + 1 ELSE t.retry
            IN [pc |-> IF RetryAgain(fin, n) THEN "prepare" ELSE "done",
                busy |-> IF resp = "BUSY" THEN t.busy + 1 ELSE t.busy,
                retry |-> n]
  ELSE t

\* the row of c_strlist_new(column_count) and the c_strlist_add loop
RowList(r, n) ==
  LET add[i \in 0..n] ==
        IF i = 0 THEN c_strlist_new(n)
        ELSE c_strlist_add(add[i - 1], ColumnText(r, i - 1))
  IN add[n]

IsQuery == op = "query" \/ op = "probe"

\* whether the row loop of the running call goes round again after answer e
StepStays(e) == IF IsQuery THEN QueryStepStays(e, busy_count)
                ELSE InsertStepStays(e, busy_count)

\* ------------------------------------------------------ csync_journal_query
\* entry of csync_journal_query: the locals' initial values
BeginCall(o, s) ==
  /\ op' = o
  /\ statement' = s
  /\ busy_count' = 0
  /\ retry_count' = 0
  /\ err' = "NONE"
  /\ rc' = "OK"
  /\ column_count' = 0
  /\ result' = NullList
  /\ ret' = 0
  /\ prepCalls' = 0
  /\ prepSleeps' = 0
  /\ stepRetries' = 0
  /\ attempts' = 0
  /\ rowsSeen' = 0
  /\ stepped' = FALSE
  /\ touched' = FALSE
  /\ hardError' = FALSE
  /\ twin' = QueryEntry
  /\ phaseStart' = TRUE

StartQuery(s) ==
  /\ jpc = "idle"
  /\ loadpc = "returned"
  /\ s # ""
  /\ BeginCall("query", s)
  /\ jpc' = "prepare"
  /\ endedAt' = "none"
  /\ UNCHANGED <<cvars, loadObs>>
  /\ UNCHANGED cmdvars

\* the empty-statement test left out
IsEmptyStatement_Never(s) == FALSE

\* if (!statement[0])
IsEmptyStatement(s) == s = ""

\* entry of csync_journal_insert: if (!statement[0]) return 0;
StartInsert(s) ==
  /\ jpc = "idle"
  /\ loadpc = "returned"
  /\ BeginCall("insert", s)
  /\ jpc' = IF IsEmptyStatement(s) THEN "done" ELSE "prepare"
  /\ endedAt' = IF IsEmptyStatement(s) THEN "empty" ELSE "none"
  /\ UNCHANGED <<cvars, loadObs>>
  /\ UNCHANGED cmdvars

\* One pass of the inner do-while (sleep when busy_count is set, prepare, the
\* loop test) and, when the loop is left, the test of err that follows it.
Prepare(resp) ==
  /\ jpc = "prepare"
  /\ touched' = TRUE
  /\ err' = resp
  /\ twin' = IF twin.pc = jpc THEN QueryControl(twin, resp, "OK") ELSE twin
  /\ phaseStart' = (resp = "OK")
  /\ IF PrepareAgain(resp, busy_count)
     THEN \* busy, and the counter is below the ceiling: prepare again
          /\ busy_count' = busy_count + 1
          /\ prepCalls' = IF attempts = 0 THEN prepCalls + 1 ELSE prepCalls
          /\ prepSleeps' = IF attempts = 0 /\ busy_count # 0
                           THEN prepSleeps + 1 ELSE prepSleeps
          /\ jpc' = "prepare"
          /\ UNCHANGED <<column_count, result, ret, hardError, endedAt>>
     ELSE IF resp # "OK"
     THEN \* compile error or busy ceiling: query answers c_strlist_new(1)
          /\ busy_count' = IF resp = "BUSY" THEN busy_count + 1 ELSE busy_count
          /\ prepCalls' = IF attempts = 0 THEN prepCalls + 1 ELSE prepCalls
          /\ prepSleeps' = IF attempts = 0 /\ busy_count # 0
                           THEN prepSleeps + 1 ELSE prepSleeps
          /\ result' = IF IsQuery THEN Sentinel ELSE result
          /\ ret' = IF op = "insert" THEN lastRowid ELSE ret
          /\ hardError' = (resp # "BUSY")
          /\ jpc' = "done"
          /\ endedAt' = "prepare"
          /\ UNCHANGED column_count
     ELSE \* compiled: busy_count = 0 and on to the row loop
          /\ busy_count' = 0
          /\ prepCalls' = 0
          /\ prepSleeps' = 0
          /\ column_count' = IF IsQuery THEN ColumnCount(statement) ELSE column_count
          /\ jpc' = "step"
          /\ UNCHANGED <<result, ret, hardError, endedAt>>
  /\ UNCHANGED <<op, statement, retry_count, rc, cvars, stepRetries,
                 attempts, rowsSeen, stepped, loadObs, cmdvars>>

\* One pass of the for(;;) loop that stays in the loop: sqlite3_step answered
\* BUSY below the ceiling, or a row (any answer but BUSY, DONE and ERROR).
StepOn(resp) ==
  /\ jpc = "step"
  /\ StepStays(resp)
  /\ twin' = IF twin.pc = jpc THEN QueryControl(twin, resp, "OK") ELSE twin
  /\ phaseStart' = FALSE
  /\ touched' = TRUE
  /\ stepped' = TRUE
  /\ stepRetries' = IF err = "BUSY" THEN stepRetries + 1 ELSE stepRetries
  /\ err' = resp
  /\ hardError' = (hardError \/ resp = "MISUSE")
  /\ IF resp = "BUSY"
     THEN /\ busy_count' = busy_count + 1
          /\ UNCHANGED <<result, rowsSeen>>
     ELSE /\ rowsSeen' = rowsSeen + 1
          /\ result' = IF IsQuery
                       THEN RowList(IF resp = "ROW" THEN rowsSeen + 1 ELSE 0,
                                    column_count)
                       ELSE result
          /\ UNCHANGED busy_count
  /\ UNCHANGED <<jpc, op, statement, retry_count, rc, column_count, ret, cvars,
                 prepCalls, prepSleeps, attempts, endedAt, loadObs, cmdvars>>

\* The pass of the for(;;) loop that leaves it (DONE, ERROR, or BUSY over the
\* ceiling), then sqlite3_finalize and the rest of the outer do-while body up
\* to its test. id is the rowid the connection holds after a completed insert,
\* fin the answer of sqlite3_finalize.
StepOut(resp, id, fin) ==
  /\ jpc = "step"
  /\ ~StepStays(resp)
  /\ twin' = IF twin.pc = jpc THEN QueryControl(twin, resp, fin) ELSE twin
  /\ touched' = TRUE
  /\ stepped' = TRUE
  /\ err' = resp
  /\ rc' = fin
  /\ attempts' = attempts + 1
  /\ busy_count' = IF resp = "BUSY" THEN busy_count + 1 ELSE busy_count
  /\ IF op = "insert" /\ resp = "DONE"
     THEN /\ lastRowid' = id
          /\ IF journal = "ctmp"
             THEN tmpfile' = Written(tmpfile) /\ UNCHANGED jfile
             ELSE jfile' = Written(jfile) /\ UNCHANGED tmpfile
     ELSE UNCHANGED <<tmpfile, jfile, lastRowid>>
  /\ LET n == IF fin = "SCHEMA" THEN retry_count + 1 ELSE retry_count
         r1 == IF StepFailed(resp, fin) THEN Sentinel ELSE result
         r2 == IF fin = "SCHEMA" /\ ~(n < MaxRetryCount) THEN Sentinel ELSE r1
     IN /\ retry_count' = n
        /\ result' = IF IsQuery THEN r2 ELSE result
        /\ IF RetryAgain(fin, n)
           THEN /\ jpc' = "prepare"
                /\ phaseStart' = TRUE
                /\ stepRetries' = 0
                /\ rowsSeen' = 0
                /\ hardError' = FALSE
                /\ UNCHANGED <<ret, endedAt>>
           ELSE /\ jpc' = "done"
                /\ phaseStart' = FALSE
                /\ endedAt' = "finalize"
                /\ stepRetries' = IF err = "BUSY" THEN stepRetries + 1
                                  ELSE stepRetries
                /\ hardError' = (hardError \/ resp = "ERROR")
                /\ ret' = IF op = "insert" THEN lastRowid' ELSE ret
                /\ UNCHANGED rowsSeen
  /\ UNCHANGED <<op, statement, column_count, journal, journal_exists, loadpc,
                 loadRet, prepCalls, prepSleeps, loadObs, cmdvars>>

RowidAnswers == {lastRowid, IF lastRowid < MaxRowid THEN lastRowid + 1 ELSE lastRowid}

\* ------------------------------------------------------ csync_journal_load
\* what the journal path can hold
FileStates == {"absent", "noaccess", "empty", "garbage", "sqlite_notable",
               "sqlite_table0", "sqlite_tableN"}

\* open(journal, O_RDONLY) >= 0
CanOpen(f) == f \notin {"absent", "noaccess"}

\* the version test passing whatever the file holds
MagicOk_Any(f) == TRUE

\* c_streq(buf, "SQLite format 3") on the first 16 bytes read; a file shorter
\* than the header leaves buf zero-filled
MagicOk(f) == f \in {"sqlite_notable", "sqlite_table0", "sqlite_tableN"}

\* what load meets: the answers of read, of the two sqlite3_open calls of
\* csync_journal_check (on the existing file, and creating), of asprintf,
\* c_copy and of sqlite3_open on the sidecar; oob is where the byte written
\* by buf[16] = '\0', one past the end of buf, lands: in padding, or in fd,
\* so that close() is given descriptor 0 and the journal's descriptor stays open
LoadEnvs == [read : BOOLEAN, open1 : BOOLEAN, open2 : BOOLEAN,
             asprintf : BOOLEAN, copy : BOOLEAN, tmpopen : BOOLEAN,
             oob : {"pad", "fd"}]

\* csync_journal_check(journal): [ret, file] and what it did to the file
csync_journal_check(f, env) ==
  LET didRead == CanOpen(f) /\ env.read
      kept == didRead /\ MagicOk(f) /\ env.open1
      unlinked == didRead /\ ~kept
      f1 == IF unlinked THEN "absent" ELSE f
      made == ~kept /\ env.open2 /\ f1 = "absent"
  IN [ret |-> IF kept \/ env.open2 THEN 0 ELSE -1,
      file |-> IF made THEN "empty" ELSE f1,
      didRead |-> didRead,
      removed |-> unlinked,
      created |-> made,
      fdLeaked |-> (CanOpen(f) /\ ~env.read) \/ (didRead /\ env.oob = "fd")]

\* csync_journal_is_empty, given the result of its query
csync_journal_is_empty(res) == IF ~res.isNull /\ Count(res) = 0 THEN 1 ELSE 0

\* load returning its rc
LoadReturn_Rc(r) == r

\* out: ... return 0;
LoadReturn(r) == 0

\* the handle opened on the original journal file
LoadHandle_Original == "orig"

\* sqlite3_open(journal_tmp, &ctx->journal): the file ctx->journal is open on,
\* the copy named "<journal>.ctmp"
LoadHandle == "ctmp"

\* csync_journal_load up to the call of csync_journal_is_empty
LoadStart(env) ==
  /\ loadpc = "idle"
  /\ jpc = "idle"
  /\ LET chk == csync_journal_check(jfile, env)
         fail == IF chk.ret < 0 THEN "check"
                 ELSE IF ~env.asprintf THEN "asprintf"
                 ELSE IF ~env.copy THEN "copy"
                 ELSE IF ~env.tmpopen THEN "open"
                 ELSE "none"
     IN /\ jfile' = chk.file
        /\ tmpfile' = IF fail \in {"open", "none"} THEN chk.file ELSE tmpfile
        /\ journal' = IF fail = "none" THEN LoadHandle
                      ELSE IF fail = "open" THEN "invalid" ELSE journal
        /\ loadObs' = [file0 |-> jfile, fail |-> fail, didRead |-> chk.didRead,
                       removed |-> chk.removed, created |-> chk.created,
                       fdLeaked |-> chk.fdLeaked]
        /\ IF fail = "none"
           THEN /\ BeginCall("probe", ProbeStatement)
                /\ jpc' = "prepare"
                /\ endedAt' = "none"
                /\ loadpc' = "probing"
                /\ UNCHANGED loadRet
           ELSE /\ loadpc' = "returned"
                /\ loadRet' = LoadReturn(-1)
                /\ UNCHANGED <<qvars, prepCalls, prepSleeps, stepRetries,
                               attempts, rowsSeen, stepped, touched, hardError,
                               endedAt, twin, phaseStart>>
  /\ UNCHANGED <<journal_exists, lastRowid, cmdvars>>

\* the rest of csync_journal_load, once the query of csync_journal_is_empty
\* has returned; rc still holds its initial -1
LoadFinish ==
  /\ loadpc = "probing"
  /\ jpc = "done"
  /\ op = "probe"
  /\ journal_exists' = IF csync_journal_is_empty(result) # 0 THEN 0 ELSE 1
  /\ loadRet' = LoadReturn(-1)
  /\ loadpc' = "returned"
  /\ jpc' = "idle"
  /\ UNCHANGED <<op, statement, busy_count, retry_count, err, rc, column_count,
                 result, ret, jfile, tmpfile, journal, lastRowid, hvars,
                 cmdvars>>

\* ------------------------------------------------------------ cmd.cpp: main
\* a QString: null, or a sequence of characters
NullString == [null |-> TRUE, s |-> <<>>]
Str(chars) == [null |-> FALSE, s |-> chars]

\* the values of --httpproxy tried: none, "s://h:8", "h:8", "s://:8", "s://h:x",
\* "s://h:0", "s://h:8:8" and the empty string
ProxyInputs ==
  { NullString,
    Str(<<"s", ":", "/", "/", "h", ":", "8">>),
    Str(<<"h", ":", "8">>),
    Str(<<"s", ":", "/", "/", ":", "8">>),
    Str(<<"s", ":", "/", "/", "h", ":", "x">>),
    Str(<<"s", ":", "/", "/", "h", ":", "0">>),
    Str(<<"s", ":", "/", "/", "h", ":", "8", ":", "8">>),
    Str(<<>>) }

\* the values of --exclude tried: none, and a file name
ExcludeInputs == {<<>>, <<"x">>}

\* the option names of parseOptions, and an option it does not know
OptProxy == <<"-", "-", "h", "t", "t", "p", "p", "r", "o", "x", "y">>
OptS == <<"-", "s">>
OptSilent == <<"-", "-", "s", "i", "l", "e", "n", "t">>
OptTrust == <<"-", "-", "t", "r", "u", "s", "t">>
OptN == <<"-", "n">>
OptNonInteractive == <<"-", "-", "n", "o", "n", "-", "i", "n", "t", "e", "r",
                       "a", "c", "t", "i", "v", "e">>
OptU == <<"-", "u">>
OptUser == <<"-", "-", "u", "s", "e", "r">>
OptP == <<"-", "p">>
OptPassword == <<"-", "-", "p", "a", "s", "s", "w", "o", "r", "d">>
OptExclude == <<"-", "-", "e", "x", "c", "l", "u", "d", "e">>
OptUnknown == <<"-", "z">>

\* the arguments tried: the program name, options, the source directory (it
\* exists) and the target url (it holds no user name and no password). Every
\* option that takes a value is followed by one.
ProgName == <<"c", "m", "d">>
SourceDir == <<"d">>
TargetUrl == <<"o">>
UserValue == <<"a">>
PasswordValue == <<"b">>
CredentialArgs ==
  { <<>>,
    <<OptU, UserValue>>,
    <<OptP, PasswordValue>>,
    <<OptUser, UserValue, OptPassword, PasswordValue>>,
    <<OptP, PasswordValue, OptU, UserValue>>,
    <<OptN>>,
    <<OptNonInteractive, OptTrust, OptS>>,
    <<OptSilent, OptPassword, PasswordValue>>,
    <<OptUnknown>> }
ArgLists ==
  { <<ProgName>> \o c \o (IF p.null THEN <<>> ELSE <<OptProxy, p.s>>)
                 \o (IF e = <<>> THEN <<>> ELSE <<OptExclude, e>>)
                 \o <<SourceDir, TargetUrl>> :
      c \in CredentialArgs, p \in ProxyInputs, e \in ExcludeInputs }
  \cup { <<ProgName, TargetUrl>> }

\* CmdOptions options as main sets it up before parseOptions; a QString that
\* is only tested with isEmpty() is kept as its characters
DefaultOptions ==
  [user |-> <<>>, password |-> <<>>, proxy |-> NullString, silent |-> FALSE,
   trustSSL |-> FALSE, useNetrc |-> FALSE, interactive |-> TRUE,
   exclude |-> <<>>]

\* QString::startsWith(c)
StartsWith(q, c) == Len(q) > 0 /\ q[1] = c

\* } else if( (option == "-p" || option == "--password") && ... ) {
\*         options->user = it.next();
PasswordOption(o, v) == [o EXCEPT !.user = v]

\* parseOptions(app_args, &options): [help, options]; help is whether help()
\* was called, which ends the process. The last two arguments are taken off
\* as target_url and source_dir (not kept here), the file name is skipped,
\* and St[k] is the iterator position i and the options after k passes of the
\* while loop.
parseOptions(app_args, opts) ==
  IF Len(app_args) < 3 THEN [help |-> TRUE, options |-> opts]
  ELSE
    LET a == SubSeq(app_args, 2, Len(app_args) - 2)
        St[k \in 0..Len(a)] ==
          IF k = 0 THEN [i |-> 1, help |-> FALSE, options |-> opts]
          ELSE
            LET st == St[k - 1]
                o == st.options
                option == a[st.i]
                \* !it.peekNext().startsWith("-")
                noDash == ~StartsWith(a[st.i + 1], "-")
                took(o2) == [i |-> st.i + 2, help |-> FALSE, options |-> o2]
                flag(o2) == [i |-> st.i + 1, help |-> FALSE, options |-> o2]
            IN IF st.help \/ st.i > Len(a) THEN st
               ELSE IF option = OptProxy /\ noDash
                 THEN took([o EXCEPT !.proxy = Str(a[st.i + 1])])
               ELSE IF option = OptS \/ option = OptSilent
                 THEN flag([o EXCEPT !.silent = TRUE])
               ELSE IF option = OptTrust
                 THEN flag([o EXCEPT !.trustSSL = TRUE])
               ELSE IF option = OptN
                 THEN flag([o EXCEPT !.useNetrc = TRUE])
               ELSE IF option = OptNonInteractive
                 THEN flag([o EXCEPT !.interactive = FALSE])
               ELSE IF (option = OptU \/ option = OptUser) /\ noDash
                 THEN took([o EXCEPT !.user = a[st.i + 1]])
               ELSE IF (option = OptP \/ option = OptPassword) /\ noDash
                 THEN took(PasswordOption(o, a[st.i + 1]))
               ELSE IF option = OptExclude /\ noDash
                 THEN took([o EXCEPT !.exclude = a[st.i + 1]])
               ELSE [st EXCEPT !.help = TRUE]
    IN [help |-> St[Len(a)].help, options |-> St[Len(a)].options]

\* what NetrcParser finds for the host of the url: nothing, or a login pair
NetrcAnswers == { [ok |-> FALSE, login |-> <<>>, password |-> <<>>],
                  [ok |-> TRUE, login |-> <<"n">>, password |-> <<"m">>] }

\* what is typed at the prompts for the user name and for the password
TypedUsers == { <<"t">> }
TypedPasswords == { <<"q">> }

\* url.userName() and url.password() of the target url
UrlUserName == <<>>
UrlPassword == <<>>

\* the user and password main hands to HttpCredentialsText
Credentials(o, netrc, typedUser, typedPassword) ==
  IF o.useNetrc
  THEN IF netrc.ok THEN [user |-> netrc.login, password |-> netrc.password]
       ELSE [user |-> <<>>, password |-> <<>>]
  ELSE LET user1 == IF o.user = <<>> THEN UrlUserName ELSE o.user
           password1 == IF o.password = <<>> THEN UrlPassword ELSE o.password
           user2 == IF o.interactive /\ user1 = <<>> THEN typedUser ELSE user1
           password2 == IF o.interactive /\ password1 = <<>>
                        THEN typedPassword ELSE password1
       IN [user |-> user2, password |-> password2]

\* no credentials object yet
NoCred == [set |-> FALSE, user |-> <<>>, password |-> <<>>]

\* what the proxy resolver of the configured client finds for the url
AutoProxies == { [type |-> "NoProxy", host |-> <<>>, port |-> 0],
                 [type |-> "HttpProxy", host |-> <<"a">>, port |-> 3] }

\* QString::split(sep): the parts between the separators, empty parts kept
Split(str, sep) ==
  LET F[i \in 0..Len(str)] ==
        IF i = 0 THEN [done |-> <<>>, cur |-> <<>>]
        ELSE IF str[i] = sep
             THEN [done |-> Append(F[i - 1].done, F[i - 1].cur), cur |-> <<>>]
             ELSE [done |-> F[i - 1].done, cur |-> Append(F[i - 1].cur, str[i])]
  IN Append(F[Len(str)].done, F[Len(str)].cur)

Digits == <<"0", "1", "2", "3", "4", "5", "6", "7", "8", "9">>
IsDigit(c) == \E d \in 1..10 : Digits[d] = c
DigitValue(c) == (CHOOSE d \in 1..10 : Digits[d] = c) - 1

\* QString::toInt(&ok) on a string of digits; any other string: ok = false, 0
ToInt(str) ==
  LET good == Len(str) > 0 /\ \A i \in 1..Len(str) : IsDigit(str[i])
      V[i \in 0..Len(str)] ==
        IF i = 0 THEN 0 ELSE 10 * V[i - 1] + DigitValue(str[i])
  IN [ok |-> good, val |-> IF good THEN V[Len(str)] ELSE 0]

\* if (host.startsWith("//")) host.remove(0, 2);
StripSlashes(h) ==
  IF Len(h) >= 2 /\ h[1] = "/" /\ h[2] = "/" THEN SubSeq(h, 3, Len(h)) ELSE h

\* the module properties of a context nothing was set on
NoProps == [csync_context |-> [set |-> FALSE, v |-> 0],
            proxy_type |-> [set |-> FALSE, v |-> ""],
            proxy_host |-> [set |-> FALSE, v |-> <<>>],
            proxy_port |-> [set |-> FALSE, v |-> 0]]

\* csync_set_module_property(ctx, key, value)
SetProp(p, key, value) == [p EXCEPT ![key] = [set |-> TRUE, v |-> value]]

\* the branch of main taken when options.proxy is not null
ExplicitProxy(p, proxy) ==
  LET p0 == SetProp(p, "proxy_type", "NoProxy")
      pList == Split(proxy.s, ":")
  IN IF Len(pList) = 3
     THEN LET host == StripSlashes(pList[2])
              port == ToInt(pList[3])
              \* !host.isNull(): a part handed out by split is never null
              p1 == SetProp(SetProp(p0, "proxy_type", "HttpProxy"),
                            "proxy_host", host)
          IN IF port.ok /\ port.val # 0
             THEN SetProp(p1, "proxy_port", port.val)
             ELSE p1
     ELSE p0

\* clientProxy.setCSyncProxy(url, ctx), given what the resolver found
ResolvedProxy(p, auto) ==
  SetProp(SetProp(SetProp(p, "proxy_type", auto.type),
                  "proxy_host", auto.host), "proxy_port", auto.port)

\* the label restart_sync placed after csync_create
RestartLabel_AfterCreate == "sock_init"

\* restart_sync: the statement goto restart_sync jumps to
RestartLabel == "create"

\* main without the call of ne_sock_exit
Succ_NoSockExit(p) ==
  CASE p = "create" -> "sock_init"
    [] p = "sock_init" -> "pre_init"
    [] p = "pre_init" -> "init"
    [] p = "init" -> "configure"
    [] p = "configure" -> "exclude"
    [] p = "exclude" -> "pre_start"
    [] p = "pre_start" -> "schedule"
    [] p = "schedule" -> "exec"
    [] p = "exec" -> "destroy"
    [] p = "destroy" -> "check_repeat"
    [] p = "sock_exit" -> "check_repeat"

\* main with syncContextPreStart called right after csync_init
Succ_PreStartEarly(p) ==
  CASE p = "create" -> "sock_init"
    [] p = "sock_init" -> "pre_init"
    [] p = "pre_init" -> "init"
    [] p = "init" -> "pre_start"
    [] p = "pre_start" -> "configure"
    [] p = "configure" -> "exclude"
    [] p = "exclude" -> "schedule"
    [] p = "schedule" -> "exec"
    [] p = "exec" -> "destroy"
    [] p = "destroy" -> "sock_exit"
    [] p = "sock_exit" -> "check_repeat"

\* the order of the statements of main between restart_sync and the test of
\* isAnotherSyncNeeded
Succ(p) ==
  CASE p = "create" -> "sock_init"
    [] p = "sock_init" -> "pre_init"
    [] p = "pre_init" -> "init"
    [] p = "init" -> "configure"
    [] p = "configure" -> "exclude"
    [] p = "exclude" -> "pre_start"
    [] p = "pre_start" -> "schedule"
    [] p = "schedule" -> "exec"
    [] p = "exec" -> "destroy"
    [] p = "destroy" -> "sock_exit"
    [] p = "sock_exit" -> "check_repeat"

\* parseOptions( app.arguments(), &options ); help() ends the process
ParseOptions ==
  /\ pc = "parse"
  /\ LET r == parseOptions(args, options)
     IN /\ options' = r.options
        /\ pc' = IF r.help THEN "usage" ELSE "credentials"
  /\ UNCHANGED <<args, cred, ctx, nextCtx, live, sockDepth, props, excludeList,
                 evars, ovars, jvars>>

\* the user and the password are settled and HttpCredentialsText is made
MakeCredentials(netrc, typedUser, typedPassword) ==
  /\ pc = "credentials"
  /\ LET c == Credentials(options, netrc, typedUser, typedPassword)
     IN cred' = [set |-> TRUE, user |-> c.user, password |-> c.password]
  /\ pc' = "create"
  /\ UNCHANGED <<args, options, ctx, nextCtx, live, sockDepth, props,
                 excludeList, evars, ovars, jvars>>

\* csync_create; qFatal ends the process
CsyncCreate(ok) ==
  /\ pc = "create"
  /\ IF ok
     THEN /\ nextCtx' = nextCtx + 1
          /\ ctx' = nextCtx + 1
          /\ live' = live \cup {nextCtx + 1}
          /\ props' = NoProps
          /\ excludeList' = <<>>
          /\ passes' = passes + 1
          /\ createdIds' = Append(createdIds, nextCtx + 1)
          /\ trace' = <<"create">>
          /\ pc' = Succ(pc)
     ELSE /\ pc' = "aborted"
          /\ UNCHANGED <<ctx, nextCtx, live, props, excludeList, passes,
                         createdIds, trace>>
  /\ UNCHANGED <<args, options, cred, sockDepth, evars, starts, repeats,
                 engineIds, resolverCalls, jvars>>

\* ne_sock_init; qFatal ends the process
NeSockInit(ok) ==
  /\ pc = "sock_init"
  /\ IF ok
     THEN /\ sockDepth' = sockDepth + 1
          /\ trace' = Append(trace, "sock_init")
          /\ pc' = Succ(pc)
     ELSE /\ pc' = "aborted"
          /\ UNCHANGED <<sockDepth, trace>>
  /\ UNCHANGED <<args, options, cred, ctx, nextCtx, live, props, excludeList,
                 evars, passes, starts, repeats, createdIds, engineIds,
                 resolverCalls,
                 jvars>>

\* csync_set_log_level, opts = &options, cred->syncContextPreInit
PreInit ==
  /\ pc = "pre_init"
  /\ trace' = Append(trace, "pre_init")
  /\ pc' = Succ(pc)
  /\ UNCHANGED <<args, options, cred, ctx, nextCtx, live, sockDepth, props,
                 excludeList,
                 evars, passes, starts, repeats, createdIds, engineIds,
                 resolverCalls, jvars>>

\* csync_init; qFatal ends the process
CsyncInit(ok) ==
  /\ pc = "init"
  /\ trace' = Append(trace, "init")
  /\ pc' = IF ok THEN Succ(pc) ELSE "aborted"
  /\ UNCHANGED <<args, options, cred, ctx, nextCtx, live, sockDepth, props,
                 excludeList,
                 evars, passes, starts, repeats, createdIds, engineIds,
                 resolverCalls, jvars>>

\* the test taken for isEmpty(): an empty --httpproxy value counts as none
UseExplicitProxy_NonEmpty(o) == ~o.proxy.null /\ o.proxy.s # <<>>

\* if( !options.proxy.isNull() )
UseExplicitProxy(o) == ~o.proxy.null

\* the csync_context property and the proxy properties
Configure(auto) ==
  /\ pc = "configure"
  /\ LET p0 == SetProp(props, "csync_context", ctx)
     IN IF UseExplicitProxy(options)
        THEN /\ props' = ExplicitProxy(p0, options.proxy)
             /\ UNCHANGED resolverCalls
        ELSE /\ props' = ResolvedProxy(p0, auto)
             /\ resolverCalls' = resolverCalls + 1
  /\ trace' = Append(Append(trace, "self"), "proxy")
  /\ pc' = Succ(pc)
  /\ UNCHANGED <<args, options, cred, ctx, nextCtx, live, sockDepth,
                 excludeList, evars, passes, starts, repeats, createdIds,
                 engineIds, jvars>>

\* if (!options.exclude.isEmpty()) csync_add_exclude_list
AddExcludeList ==
  /\ pc = "exclude"
  /\ IF options.exclude # <<>>
     THEN /\ excludeList' = options.exclude
          /\ trace' = Append(trace, "exclude")
     ELSE UNCHANGED <<excludeList, trace>>
  /\ pc' = Succ(pc)
  /\ UNCHANGED <<args, options, cred, ctx, nextCtx, live, sockDepth, props,
                 evars, passes, starts, repeats, createdIds, engineIds,
                 resolverCalls,
                 jvars>>

\* cred->syncContextPreStart
PreStart ==
  /\ pc = "pre_start"
  /\ trace' = Append(trace, "pre_start")
  /\ pc' = Succ(pc)
  /\ UNCHANGED <<args, options, cred, ctx, nextCtx, live, sockDepth, props,
                 excludeList,
                 evars, passes, starts, repeats, createdIds, engineIds,
                 resolverCalls, jvars>>

\* the engine is constructed on the context, finished() is connected to
\* quit(), and startSync is posted to the event loop
Schedule ==
  /\ pc = "schedule"
  /\ engine' = "constructed"
  /\ engineCtx' = ctx
  /\ connected' = TRUE
  /\ queue' = Append(queue, "startSync")
  /\ another' = FALSE
  /\ outcome' = "none"
  /\ trace' = Append(trace, "invoke")
  /\ pc' = Succ(pc)
  /\ UNCHANGED <<args, options, cred, ctx, nextCtx, live, sockDepth, props,
                 excludeList,
                 inExec, quit, passes, starts, repeats, createdIds, engineIds,
                 resolverCalls, jvars>>

\* app.exec(): main enters the event loop
ExecEnter ==
  /\ pc = "exec"
  /\ inExec' = TRUE
  /\ quit' = FALSE
  /\ trace' = Append(trace, "exec")
  /\ pc' = "in_loop"
  /\ UNCHANGED <<args, options, cred, ctx, nextCtx, live, sockDepth, props,
                 excludeList,
                 engine, engineCtx, connected, queue, another, outcome,
                 passes, starts, repeats, createdIds, engineIds, resolverCalls,
                 jvars>>

\* a posted call run at once, as a direct call is
Dispatches_Direct(running) == TRUE

\* QMetaObject::invokeMethod(..., Qt::QueuedConnection): the call is posted
\* and only a running event loop takes it off the queue
Dispatches(running) == running

\* the event loop delivers the posted startSync
StartSync ==
  /\ Dispatches(inExec)
  /\ ~quit
  /\ queue # <<>>
  /\ queue' = Tail(queue)
  /\ engine' = "running"
  /\ starts' = starts + 1
  /\ engineIds' = Append(engineIds, engineCtx)
  /\ trace' = Append(trace, "start_sync")
  /\ UNCHANGED <<mvars, engineCtx, connected, inExec, quit, another, outcome,
                 passes, repeats, createdIds, resolverCalls, jvars>>

\* the engine ends its pass and emits finished(); the slot quit() runs when
\* the connection was made. res is how the pass ended, again whether another
\* sync is needed.
EngineFinished(res, again) ==
  /\ engine = "running"
  /\ passes < MaxPasses \/ ~again
  /\ engine' = "finished"
  /\ outcome' = res
  /\ another' = again
  /\ quit' = (quit \/ (connected /\ inExec))
  /\ repeats' = IF again THEN repeats + 1 ELSE repeats
  /\ trace' = Append(trace, "finished")
  /\ UNCHANGED <<mvars, engineCtx, connected, queue, inExec, passes, starts,
                 createdIds, engineIds, resolverCalls, jvars>>

\* app.exec() returns once quit() was called
ExecReturn ==
  /\ pc = "in_loop"
  /\ quit
  /\ inExec' = FALSE
  /\ pc' = Succ("exec")
  /\ UNCHANGED <<args, options, cred, ctx, nextCtx, live, sockDepth, props,
                 excludeList,
                 engine, engineCtx, connected, queue, quit, another, outcome,
                 ovars, jvars>>

\* csync_destroy(_csync_ctx)
CsyncDestroy ==
  /\ pc = "destroy"
  /\ live' = live \ {ctx}
  /\ trace' = Append(trace, "destroy")
  /\ pc' = Succ(pc)
  /\ UNCHANGED <<args, options, cred, ctx, nextCtx, sockDepth, props,
                 excludeList, evars, passes, starts, repeats, createdIds,
                 engineIds, resolverCalls,
                 jvars>>

\* ne_sock_exit()
NeSockExit ==
  /\ pc = "sock_exit"
  /\ sockDepth' = sockDepth - 1
  /\ trace' = Append(trace, "sock_exit")
  /\ pc' = Succ(pc)
  /\ UNCHANGED <<args, options, cred, ctx, nextCtx, live, props, excludeList,
                 evars, passes, starts, repeats, createdIds, engineIds,
                 resolverCalls,
                 jvars>>

\* if (engine.isAnotherSyncNeeded()) goto restart_sync; return 0;
\* the jump leaves the scope of cmd, db and engine
CheckRepeat ==
  /\ pc = "check_repeat"
  /\ IF another
     THEN /\ pc' = RestartLabel
          /\ engine' = "none"
          /\ engineCtx' = 0
          /\ connected' = FALSE
          /\ queue' = <<>>
          /\ another' = FALSE
          /\ outcome' = "none"
     ELSE /\ pc' = "exited"
          /\ UNCHANGED <<engine, engineCtx, connected, queue, another, outcome>>
  /\ UNCHANGED <<args, options, cred, ctx, nextCtx, live, sockDepth, props,
                 excludeList,
                 inExec, quit, ovars, jvars>>

\* main before restart_sync, and nothing of the journal in play
CmdIdle ==
  /\ pc = "create"
  /\ args = <<>>
  /\ options = DefaultOptions
  /\ cred = NoCred
  /\ ctx = 0 /\ nextCtx = 0 /\ live = {} /\ sockDepth = 0
  /\ props = NoProps /\ excludeList = <<>>
  /\ engine = "none" /\ engineCtx = 0 /\ connected = FALSE /\ queue = <<>>
  /\ inExec = FALSE /\ quit = FALSE /\ another = FALSE /\ outcome = "none"
  /\ trace = <<>> /\ passes = 0 /\ starts = 0 /\ repeats = 0
  /\ createdIds = <<>> /\ engineIds = <<>> /\ resolverCalls = 0

\* ------------------------------------------------- journal API specification
\* a context whose journal was loaded: the handle is open on the sidecar copy
Init ==
  /\ jpc = "idle" /\ op = "none" /\ statement = ""
  /\ busy_count = 0 /\ retry_count = 0 /\ err = "NONE" /\ rc = "OK"
  /\ column_count = 0 /\ result = NullList /\ ret = 0
  /\ jfile = "sqlite_table0"
  /\ tmpfile = jfile
  /\ journal = LoadHandle
  /\ journal_exists = IF HasTable(jfile) THEN 1 ELSE 0
  /\ lastRowid \in 0..MaxRowid
  /\ loadpc = "returned" /\ loadRet = 0
  /\ prepCalls = 0 /\ prepSleeps = 0 /\ stepRetries = 0 /\ attempts = 0
  /\ rowsSeen = 0 /\ stepped = FALSE /\ touched = FALSE
  /\ hardError = FALSE /\ endedAt = "none"
  /\ twin = QueryEntry /\ phaseStart = FALSE
  /\ loadObs = [file0 |-> jfile, fail |-> "none", didRead |-> FALSE,
                removed |-> FALSE, created |-> FALSE, fdLeaked |-> FALSE]
  /\ CmdIdle

Next ==
  \/ \E s \in QueryStatements : StartQuery(s)
  \/ \E s \in InsertStatements : StartInsert(s)
  \/ \E resp \in PrepareAnswers : Prepare(resp)
  \/ \E resp \in StepAnswers : StepOn(resp)
  \/ \E resp \in StepAnswers, id \in RowidAnswers, fin \in FinalizeAnswers :
        StepOut(resp, id, fin)

Spec == Init /\ [][Next]_vars
\* ----------------------------------------------------- load specification
\* a context just created; journal_exists holds whatever it held before
InitLoad ==
  /\ jpc = "idle" /\ op = "none" /\ statement = ""
  /\ busy_count = 0 /\ retry_count = 0 /\ err = "NONE" /\ rc = "OK"
  /\ column_count = 0 /\ result = NullList /\ ret = 0
  /\ jfile \in FileStates
  /\ tmpfile \in {"absent", "sqlite_tableN"}
  /\ journal = "none"
  /\ journal_exists \in {0, 1}
  /\ lastRowid = 0
  /\ loadpc = "idle" /\ loadRet = 0
  /\ prepCalls = 0 /\ prepSleeps = 0 /\ stepRetries = 0 /\ attempts = 0
  /\ rowsSeen = 0 /\ stepped = FALSE /\ touched = FALSE
  /\ hardError = FALSE /\ endedAt = "none"
  /\ twin = QueryEntry /\ phaseStart = FALSE
  /\ loadObs = [file0 |-> jfile, fail |-> "none", didRead |-> FALSE,
                removed |-> FALSE, created |-> FALSE, fdLeaked |-> FALSE]
  /\ CmdIdle

NextLoad ==
  \/ \E env \in LoadEnvs : LoadStart(env)
  \/ \E resp \in PrepareAnswers : Prepare(resp)
  \/ \E resp \in StepAnswers : StepOn(resp)
  \/ \E resp \in StepAnswers, fin \in FinalizeAnswers :
        StepOut(resp, lastRowid, fin)
  \/ LoadFinish

SpecLoad == InitLoad /\ [][NextLoad]_vars

\* ----------------------------------------------------- main specification
\* main about to call parseOptions
InitCmd ==
  /\ pc = "parse"
  /\ args \in ArgLists
  /\ options = DefaultOptions
  /\ cred = NoCred
  /\ ctx = 0 /\ nextCtx = 0 /\ live = {} /\ sockDepth = 0
  /\ props = NoProps /\ excludeList = <<>>
  /\ engine = "none" /\ engineCtx = 0 /\ connected = FALSE /\ queue = <<>>
  /\ inExec = FALSE /\ quit = FALSE /\ another = FALSE /\ outcome = "none"
  /\ trace = <<>> /\ passes = 0 /\ starts = 0 /\ repeats = 0
  /\ createdIds = <<>> /\ engineIds = <<>> /\ resolverCalls = 0
  /\ jpc = "idle" /\ op = "none" /\ statement = ""
  /\ busy_count = 0 /\ retry_count = 0 /\ err = "NONE" /\ rc = "OK"
  /\ column_count = 0 /\ result = NullList /\ ret = 0
  /\ jfile = "absent" /\ tmpfile = "absent" /\ journal = "none"
  /\ journal_exists = 0 /\ lastRowid = 0
  /\ loadpc = "idle" /\ loadRet = 0
  /\ prepCalls = 0 /\ prepSleeps = 0 /\ stepRetries = 0 /\ attempts = 0
  /\ rowsSeen = 0 /\ stepped = FALSE /\ touched = FALSE
  /\ hardError = FALSE /\ endedAt = "none"
  /\ twin = QueryEntry /\ phaseStart = FALSE
  /\ loadObs = [file0 |-> jfile, fail |-> "none", didRead |-> FALSE,
                removed |-> FALSE, created |-> FALSE, fdLeaked |-> FALSE]

NextCmd ==
  \/ ParseOptions
  \/ \E netrc \in NetrcAnswers, tu \in TypedUsers, tp \in TypedPasswords :
        MakeCredentials(netrc, tu, tp)
  \/ \E ok \in BOOLEAN : CsyncCreate(ok)
  \/ \E ok \in BOOLEAN : NeSockInit(ok)
  \/ PreInit
  \/ \E ok \in BOOLEAN : CsyncInit(ok)
  \/ \E auto \in AutoProxies : Configure(auto)
  \/ AddExcludeList
  \/ PreStart
  \/ Schedule
  \/ ExecEnter
  \/ StartSync
  \/ \E res \in {"ok", "failed"}, again \in BOOLEAN : EngineFinished(res, again)
  \/ ExecReturn
  \/ CsyncDestroy
  \/ NeSockExit
  \/ CheckRepeat

SpecCmd == InitCmd /\ [][NextCmd]_vars

\* ------------------------------------------------------------------ claims
\* position of event e in the trace of the current pass, 0 when it is not there
Pos(e) == IF \E i \in 1..Len(trace) : trace[i] = e
          THEN CHOOSE i \in 1..Len(trace) : trace[i] = e
          ELSE 0
Before(a, b) == Pos(a) > 0 /\ Pos(a) < Pos(b)

\* C1: when the engine reports another sync needed after each of the first N
\* passes and clear after pass N+1, main ends after N+1 csync_create calls and
\* N+1 startSync runs, and the engine of each pass runs on the context that the
\* csync_create call of its own pass returned, different from every earlier one.
C1_RepeatLoop ==
  /\ (pc = "exited" => passes = repeats + 1 /\ starts = repeats + 1)
  /\ starts = Len(engineIds)
  /\ Len(engineIds) <= Len(createdIds)
  /\ \A i \in 1..Len(engineIds) :
       /\ engineIds[i] = createdIds[i]
       /\ \A j \in 1..(i - 1) : engineIds[j] # engineIds[i]
  /\ (engine = "running" => engineCtx \in live)

C1_Witness ==
  pc = "exited" /\ repeats = 2 /\ passes = 3 /\ starts = 3
  /\ engineIds = <<1, 2, 3>>

\* C2: at most one context is live and the socket subsystem is started at most
\* once without a matching stop; whenever main is about to call csync_create no
\* context is live and the socket subsystem is stopped, csync_destroy and
\* ne_sock_exit of the pass before having run.
C2_NoConcurrentPasses ==
  /\ Cardinality(live) <= 1
  /\ sockDepth \in {0, 1}
  /\ (pc = "create" => live = {} /\ sockDepth = 0)
  /\ (pc = "create" /\ passes > 0) => Before("destroy", "sock_exit")

C2_Witness == pc = "create" /\ passes = 2 /\ repeats = 2

\* C3: in every pass syncContextPreInit runs before csync_init, and
\* syncContextPreStart runs after the csync_context property, the proxy
\* properties and the exclude list were set and before startSync is posted
\* or run.
C3_HookOrdering ==
  /\ (Pos("init") > 0 => Before("pre_init", "init"))
  /\ (Pos("pre_start") > 0 =>
        /\ Before("init", "pre_start")
        /\ Before("self", "pre_start") /\ props.csync_context.set
        /\ props.csync_context.v = ctx
        /\ Before("proxy", "pre_start") /\ props.proxy_type.set
        /\ (options.exclude # <<>> =>
              Before("exclude", "pre_start") /\ excludeList = options.exclude))
  /\ (Pos("invoke") > 0 => Before("pre_start", "invoke"))
  /\ (Pos("start_sync") > 0 => Before("pre_start", "start_sync"))

C3_Witness ==
  /\ Pos("start_sync") > 0 /\ passes = 2
  /\ options.exclude # <<>> /\ ~options.proxy.null

\* C4: a database that answers BUSY to every prepare is asked 1 + 120 times, with
\* one sleep before each of the 120 re-attempts; the call then returns without
\* any step or finalize, and query returns the empty sentinel list.
C4_PrepareBusyBound ==
  /\ prepCalls <= MaxBusyCount + 1
  /\ prepSleeps <= MaxBusyCount
  /\ (jpc = "done" /\ endedAt = "prepare" /\ err = "BUSY" /\ ~stepped) =>
       /\ prepCalls = MaxBusyCount + 1
       /\ prepSleeps = MaxBusyCount
       /\ attempts = 0
       /\ (op = "query" => result = Sentinel)
       /\ (op = "insert" => ret = lastRowid)

C4_Witness ==
  /\ jpc = "done" /\ endedAt = "prepare" /\ err = "BUSY" /\ ~stepped
  /\ op = "query" /\ prepCalls = MaxBusyCount + 1 /\ result = Sentinel

\* C5: in one row-stepping phase sqlite3_step is re-attempted after BUSY at most
\* 120 times, the ceiling of the prepare phase.
C5_StepBusyBound == stepRetries <= MaxBusyCount

\* C6: the prepare-and-step sequence is re-run only after finalize answered
\* SCHEMA and only while the schema-failure count is below 10; a call whose
\* every finalize answered SCHEMA ends with the count at 10 after 10 attempts,
\* and query then returns the empty sentinel list.
C6_SchemaRetryBound ==
  /\ retry_count <= MaxRetryCount
  /\ attempts <= MaxRetryCount
  /\ (retry_count = MaxRetryCount => jpc = "done")
  /\ (jpc \in {"prepare", "step"} /\ attempts > 0 => rc = "SCHEMA")
  /\ (jpc = "done" /\ endedAt = "finalize" /\ rc = "SCHEMA") =>
       /\ retry_count = MaxRetryCount
       /\ (op = "query" => result = Sentinel)
       /\ (op = "insert" => ret = lastRowid)

C6_Witness ==
  /\ jpc = "done" /\ endedAt = "finalize" /\ rc = "SCHEMA"
  /\ op = "query" /\ attempts = MaxRetryCount /\ retry_count = MaxRetryCount
  /\ result = Sentinel

\* C7: a query that ends after a hard execution error in its last attempt (a
\* prepare answer other than OK and BUSY, a step answer other than ROW, DONE and
\* BUSY) returns the empty sentinel list.
C7_SoftFailure ==
  (jpc = "done" /\ op = "query" /\ hardError) => result = Sentinel

\* C8: insert of the empty statement returns 0 having made no sqlite3 call and
\* no sleep, and leaves the context, the files and the connection as they were.
C8_EmptyInsertNoOp ==
  (op = "insert" /\ statement = "") =>
    /\ jpc = "done" /\ endedAt = "empty"
    /\ ret = 0
    /\ ~touched /\ ~stepped
    /\ prepCalls = 0 /\ prepSleeps = 0 /\ stepRetries = 0 /\ attempts = 0
    /\ tmpfile = jfile /\ jfile = "sqlite_table0"
    /\ journal = "ctmp" /\ journal_exists = 1

C8_Witness ==
  /\ op = "insert" /\ statement = "" /\ jpc = "done"
  /\ lastRowid > 0 /\ ret = 0
\* C9: csync_journal_load returns a failure result when the sidecar copy cannot
\* be created or the sidecar cannot be opened, and success otherwise.
C9_LoadFailureReported ==
  loadpc = "returned" =>
    (loadRet # 0 <=> loadObs.fail \in {"asprintf", "copy", "open"})

\* C10: a journal file that was opened and read and does not start with the
\* magic header (an empty file too) is unlinked and a fresh database is
\* created at its path; when the copy and the opening of the sidecar go
\* through, load returns 0 with journal_exists = 0 and the handle on the
\* sidecar of the fresh database.
C10_CorruptionRecovery ==
  (loadpc # "idle" /\ loadObs.file0 \in {"empty", "garbage"} /\ loadObs.didRead)
  => /\ loadObs.removed
     /\ (loadObs.fail # "check" => loadObs.created /\ jfile = "empty")
     /\ (loadpc = "returned" /\ loadObs.fail = "none") =>
          /\ tmpfile = "empty"
          /\ journal = "ctmp"
          /\ loadRet = 0
          /\ journal_exists = 0

C10_Witness ==
  /\ loadpc = "returned" /\ loadObs.file0 = "garbage" /\ loadObs.didRead
  /\ loadObs.fail = "none" /\ loadObs.removed /\ journal_exists = 0
  /\ jfile = "empty" /\ touched

\* C11: on a context that csync_journal_load has set up from a valid journal,
\* the handle is open on the "<journal>.ctmp" copy, and the query and insert
\* calls made through it leave the content of the journal file as it was when
\* load returned; what an insert writes lands in the copy.
C11_SidecarIsolation ==
  /\ journal = "ctmp"
  /\ jfile = loadObs.file0
  /\ (op = "insert" /\ stepped /\ err = "DONE" =>
        tmpfile = Written(loadObs.file0))

C11_Witness ==
  /\ op = "insert" /\ jpc = "done" /\ err = "DONE" /\ attempts = 2
  /\ tmpfile = "sqlite_tableN" /\ jfile = "sqlite_table0"

\* C12: with a --httpproxy value given, no pass invokes the proxy resolver and
\* the proxy properties set on the context are parts of that value; with none
\* given, every pass invokes the resolver and the proxy properties are the
\* ones the resolver found. The value "s://h:8" gives proxy_type = HttpProxy,
\* proxy_host = "h" and proxy_port = 8.
C12_ProxyPrecedence ==
  LET configured == Pos("proxy") > 0
      pList == Split(options.proxy.s, ":")
  IN /\ ~options.proxy.null =>
          /\ resolverCalls = 0
          /\ configured =>
               /\ props.proxy_type.set
               /\ props.proxy_type.v \in {"NoProxy", "HttpProxy"}
               /\ (props.proxy_host.set =>
                     Len(pList) = 3 /\ props.proxy_host.v = StripSlashes(pList[2]))
               /\ (props.proxy_port.set =>
                     Len(pList) = 3 /\ props.proxy_port.v = ToInt(pList[3]).val)
     /\ options.proxy.null =>
          /\ resolverCalls = (IF configured THEN passes
                              ELSE IF passes > 0 THEN passes - 1 ELSE 0)
          /\ configured =>
               \E auto \in AutoProxies :
                  /\ props.proxy_type = [set |-> TRUE, v |-> auto.type]
                  /\ props.proxy_host = [set |-> TRUE, v |-> auto.host]
                  /\ props.proxy_port = [set |-> TRUE, v |-> auto.port]
     /\ (options.proxy = Str(<<"s", ":", "/", "/", "h", ":", "8">>) /\ configured) =>
          /\ props.proxy_type = [set |-> TRUE, v |-> "HttpProxy"]
          /\ props.proxy_host = [set |-> TRUE, v |-> <<"h">>]
          /\ props.proxy_port = [set |-> TRUE, v |-> 8]

C12_Witness ==
  /\ options.proxy = Str(<<"s", ":", "/", "/", "h", ":", "8">>)
  /\ passes = 2 /\ Pos("pre_start") > 0 /\ resolverCalls = 0
  /\ props.proxy_type.v = "HttpProxy" /\ props.proxy_port.v = 8

\* a --httpproxy value that is not well formed: not three parts between
\* colons, no host, or a port that is not a number other than 0
Malformed(proxy) ==
  LET pList == Split(proxy.s, ":")
  IN \/ Len(pList) # 3
     \/ StripSlashes(pList[2]) = <<>>
     \/ ~ToInt(pList[3]).ok
     \/ ToInt(pList[3]).val = 0

\* C13: after the proxy properties were set from a --httpproxy value that is
\* not well formed, proxy_type is NoProxy, and proxy_host and proxy_port are
\* set only to a host and a port that did parse.
C13_MalformedProxy ==
  (~options.proxy.null /\ Malformed(options.proxy) /\ Pos("proxy") > 0) =>
    /\ props.proxy_type = [set |-> TRUE, v |-> "NoProxy"]
    /\ (props.proxy_host.set => props.proxy_host.v # <<>>)
    /\ (props.proxy_port.set => props.proxy_port.v # 0)

\* the column texts of rows 1..k of n columns each, row by row
AllRows(k, n) ==
  [j \in 1..(k * n) |-> ColumnText(((j - 1) \div n) + 1, (j - 1) % n)]

\* C14: a query whose last execution stepped through k >= 1 rows and then
\* reached DONE, with finalize answering OK, returns the k times column_count
\* column texts of all its rows, in row order and column order.
C14_QueryResultContent ==
  (op = "query" /\ jpc = "done" /\ endedAt = "finalize" /\ err = "DONE"
   /\ rc = "OK" /\ ~hardError /\ rowsSeen >= 1) =>
    /\ ~result.isNull
    /\ result.vals = AllRows(rowsSeen, column_count)

\* the options of args between the file name and the source directory: whether
\* one of names is among them, and the value that follows its last occurrence
Given(names) == \E i \in 2..(Len(args) - 3) : args[i] \in names
ValueOf(names) ==
  LET at == {i \in 2..(Len(args) - 3) : args[i] \in names}
      last == CHOOSE i \in at : \A j \in at : j <= i
  IN args[last + 1]

\* C15: once parseOptions has returned, options.user is the value given with
\* -u or --user and options.password the value given with -p or --password; a
\* password option leaves options.user alone; and, netrc not being asked for,
\* the credentials object is made with the password given.
C15_CredentialOptions ==
  pc \notin {"parse", "usage"} =>
    /\ (Given({OptU, OptUser}) => options.user = ValueOf({OptU, OptUser}))
    /\ (~Given({OptU, OptUser}) => options.user = <<>>)
    /\ (Given({OptP, OptPassword}) =>
          /\ options.password = ValueOf({OptP, OptPassword})
          /\ (cred.set /\ ~options.useNetrc =>
                cred.password = ValueOf({OptP, OptPassword})))

\* C16: at the test that follows teardown, main starts a further pass exactly
\* when the pass completed and another sync is needed; after a pass that
\* failed it ends the session, whatever isAnotherSyncNeeded() answers.
C16_SessionEndOnFailure ==
  [][(pc = "check_repeat" /\ pc' # pc) =>
       (IF outcome = "ok" /\ another THEN pc' # "exited"
        ELSE pc' = "exited")]_vars

\* C17: startSync runs only inside app.exec(), entered after the call was
\* posted and finished() was connected to quit(); once the engine has emitted
\* finished, however soon, the event loop is told to quit and main goes on to
\* teardown; and main is never past app.exec() before finished was emitted.
C17_NoLostCompletion ==
  /\ (Pos("start_sync") > 0 =>
        Before("invoke", "exec") /\ Before("exec", "start_sync"))
  /\ (engine = "running" => inExec /\ connected /\ pc = "in_loop")
  /\ (engine = "finished" /\ pc = "in_loop" => quit)
  /\ (inExec /\ quit => engine = "finished")
  /\ (pc \in {"destroy", "sock_exit", "check_repeat"} =>
        engine = "finished" /\ Before("start_sync", "finished"))

C17_Witness ==
  /\ pc = "destroy" /\ engine = "finished" /\ passes = 2
  /\ Before("exec", "start_sync") /\ Before("start_sync", "finished")

\* the database answered the query of csync_journal_is_empty without a lock
\* or an error of its own: the count row and DONE when the metadata table is
\* there, the compile error when it is not
ProbeUndisturbed ==
  IF HasTable(tmpfile)
  THEN endedAt = "finalize" /\ err = "DONE" /\ rc = "OK" /\ ~hardError
       /\ attempts = 1
  ELSE endedAt = "prepare" /\ err = "ERROR" /\ attempts = 0

\* C18: when csync_journal_load has gone through to the end, the database
\* having answered its query undisturbed, journal_exists is 1 if the metadata
\* table of the journal holds at least one row, and 0 if it holds none or is
\* not there.
C18_JournalExistsFlag ==
  (loadpc = "returned" /\ loadObs.fail = "none" /\ ProbeUndisturbed) =>
    (journal_exists = 1 <=> tmpfile = "sqlite_tableN")

C20_IndependentBusyBudgets ==
  (jpc \in {"prepare", "step"} /\ phaseStart) => busy_count = 0

\* C21: a query whose last prepare-and-step attempt reached DONE without a
\* row, finalize answering OK, returns no row data (NULL), whatever rows an
\* earlier attempt that ended with SCHEMA had produced.
C21_NoStaleRows ==
  (op = "query" /\ jpc = "done" /\ endedAt = "finalize" /\ err = "DONE"
   /\ rc = "OK" /\ rowsSeen = 0) => result.isNull
====
